---- MODULE Spec2Model ----
(***************************************************************************)
(* go-mclogs-bot: the Discord message handler handleMessageCreate in its   *)
(* three builds, and the mclo.gs API client it calls.                      *)
(*                                                                         *)
(*   "main_go"   src/main.go:20-87            sequential, one embed per    *)
(*                                            paste, log.Fatalf on a paste *)
(*                                            error                        *)
(*   "why_md"    src/why.md:289-371           sequential, one embed per    *)
(*                                            paste, return on a paste     *)
(*                                            error                        *)
(*   "part_000"  src/unnamed/part_000:116-240 producer goroutine, one      *)
(*                                            goroutine per attachment,    *)
(*                                            one embed with one field per *)
(*                                            paste                        *)
(*                                                                         *)
(* Every blocking call (ChannelTyping, http.Get, io.ReadAll, PasteLog,     *)
(* GetInsights, mu.Lock, wg.Wait, the channel send/receive, s.User,        *)
(* ChannelMessageSendEmbed) is one step; the outcome of a network call is  *)
(* chosen by the environment when the step is taken.                       *)
(***************************************************************************)
EXTENDS Integers, Sequences, FiniteSets, TLC

VARIABLES
    variant,        \* which build of handleMessageCreate the process runs
    alive,          \* the bot process is running
    msg,            \* msg[h]: m.Attachments of the message handler h is handling
    hpc,            \* hpc[h]: position of the handler goroutine
    ppc,            \* ppc[h]: position of the producer goroutine (part_000:138-152)
    idx,            \* idx[h]: index of the range loop over m.Attachments
    typingStarted,  \* typingStarted[h]
    att,            \* att[h][i]: pipeline of attachment i (task goroutine or loop body)
    fs,             \* fs[h]: []*discordgo.MessageEmbedField
    mu,             \* mu[h]: 0 when unlocked, else the attachment whose task holds it
    wg,             \* wg[h]: the WaitGroup counter
    icon,           \* icon[h]: re.Author.IconURL was set
    typing,         \* typing[h]: number of ChannelTyping calls made for the message
    sent,           \* sent[h]: the embeds handed to ChannelMessageSendEmbed
    call            \* the call of the mclo.gs client exercised on its own

vars == <<call, variant, alive, msg, hpc, ppc, idx, typingStarted, att, fs, mu, wg,
          icon, typing, sent>>

----------------------------------------------------------------------------
(* Bounds of the model *)

\* longest freely chosen attachment list; longer messages are padded
MaxLen == 2

(* Program constants *)

\* len(m.Attachments) > 5
MaxAttachments == 5

\* 10*1024*1024
SizeCeiling == 10485760

\* the handlers discordgo may run at once (one goroutine per event)
Handlers == {1, 2}

Variants == {"main_go", "why_md", "part_000"}

----------------------------------------------------------------------------
(* Strings are sequences of characters, so that a prefix test is a test. *)

TextPlain == <<"t","e","x","t","/","p","l","a","i","n">>

TextPlainUtf8 == TextPlain \o <<";"," ","c","h","a","r","s","e","t","=","u","t","f","-","8">>

TextHtml == <<"t","e","x","t","/","h","t","m","l">>

OctetStream == <<"a","p","p","l","i","c","a","t","i","o","n","/","o","c","t","e","t","-","s","t","r","e","a","m">>

\* a mutant of HasPrefix: compares only the first four characters
HasPrefixShort(s, prefix) ==
    /\ Len(s) >= 4
    /\ SubSeq(s, 1, 4) = SubSeq(prefix, 1, 4)

\* strings.HasPrefix
HasPrefix(s, prefix) ==
    /\ Len(s) >= Len(prefix)
    /\ SubSeq(s, 1, Len(prefix)) = prefix

----------------------------------------------------------------------------
(* The inbound messages *)

MiB11 == 11 * 1024 * 1024

\* discordgo.MessageAttachment: URL, ContentType, Size (as declared by Discord)
LogTxt == [URL |-> "log.txt", ContentType |-> TextPlainUtf8, Size |-> 11]

BigTxt == [URL |-> "big.txt", ContentType |-> TextPlain, Size |-> MiB11]

PageHtml == [URL |-> "page.html", ContentType |-> TextHtml, Size |-> 11]

Attachments == {LogTxt, BigTxt, PageHtml}

\* the Content-Type header the attachment's URL is served with
Served(url) ==
    CASE url = "log.txt" -> TextPlainUtf8
      [] url = "big.txt" -> OctetStream
      [] OTHER -> TextHtml

\* the lengths len(body) of a downloaded body
BodyLens == {11, SizeCeiling, SizeCeiling + 1, MiB11}

\* the outcomes of io.ReadAll: an error, or a body of some length
Reads == {[ok |-> FALSE, n |-> -1]} \cup {[ok |-> TRUE, n |-> n] : n \in BodyLens}

Pad(s, n) == s \o [k \in 1..(n - Len(s)) |-> PageHtml]

FreeLists == UNION {[1..n -> Attachments] : n \in 0..MaxLen}

ShortLists == {s \in FreeLists : Len(s) <= 1}

\* m.Attachments: a free list, or a short one padded to the cap and to one above it
Messages ==
    FreeLists
    \cup {Pad(s, MaxAttachments) : s \in ShortLists}
    \cup {Pad(s, MaxAttachments + 1) : s \in ShortLists}

----------------------------------------------------------------------------
(* The mclo.gs client (package mclogs).  A pointer is a set with at most    *)
(* one element, nil is the empty set; an error is a set with at most one   *)
(* message.                                                                *)

Nil == {}

Deref(p) == CHOOSE x \in p : TRUE

\* http.StatusOK
StatusOK == 200

\* the statuses of the service's error responses
ErrorStatuses == {404}

\* pr.ID of the paste of attachment i of handler h, and its pr.URL
PasteID(h, i) == <<h, i>>

PasteURL(id) == <<"https://mclo.gs/", id>>

\* the round trips POST /1/log can make for a paste that would get this id
PasteExchanges(id) ==
    {[transport |-> FALSE, decodes |-> FALSE,
      body |-> [Success |-> FALSE, ID |-> id, URL |-> PasteURL(id), Error |-> ""]]}
    \cup
    {[transport |-> TRUE, decodes |-> FALSE,
      body |-> [Success |-> FALSE, ID |-> id, URL |-> PasteURL(id), Error |-> ""]],
     [transport |-> TRUE, decodes |-> TRUE,
      body |-> [Success |-> FALSE, ID |-> id, URL |-> PasteURL(id),
                Error |-> "Required POST argument 'content' is empty."]],
     [transport |-> TRUE, decodes |-> TRUE,
      body |-> [Success |-> TRUE, ID |-> id, URL |-> PasteURL(id), Error |-> ""]]}

\* a mutant of PasteLog: the success flag of the response is not looked at
PasteLogUnchecked(x) ==
    IF ~x.transport THEN [pr |-> Nil, err |-> {"transport"}]
    ELSE IF ~x.decodes THEN [pr |-> Nil, err |-> {"decode"}]
    ELSE [pr |-> {x.body}, err |-> Nil]

\* Client.PasteLog on the round trip x: (*PasteResponse, error)
PasteLog(x) ==
    IF ~x.transport THEN [pr |-> Nil, err |-> {"transport"}]
    ELSE IF ~x.decodes THEN [pr |-> Nil, err |-> {"decode"}]
    ELSE IF ~x.body.Success THEN [pr |-> Nil, err |-> {x.body.Error}]
    ELSE [pr |-> {x.body}, err |-> Nil]

InsightsTitle == "Vanilla 1.21.4 Server Log"

\* the round trips GET /1/insights/{id} can make
InsightsExchanges(id) ==
    {[transport |-> FALSE, status |-> StatusOK, decodes |-> FALSE,
      body |-> [ID |-> id, Title |-> "", Error |-> ""]]}
    \cup
    {[transport |-> TRUE, status |-> st, decodes |-> TRUE,
      body |-> [ID |-> id, Title |-> "", Error |-> "Log not found."]] :
        st \in {StatusOK} \cup ErrorStatuses}
    \cup
    {[transport |-> TRUE, status |-> StatusOK, decodes |-> d,
      body |-> [ID |-> id, Title |-> InsightsTitle, Error |-> ""]] : d \in BOOLEAN}

\* a mutant of GetInsights: the error field of the payload is not looked at
GetInsightsNoErrorField(x) ==
    IF ~x.transport THEN [an |-> Nil, err |-> {"transport"}]
    ELSE IF x.status # StatusOK
         THEN IF ~x.decodes THEN [an |-> Nil, err |-> {"decode"}]
              ELSE [an |-> Nil, err |-> {x.body.Error}]
    ELSE IF ~x.decodes THEN [an |-> Nil, err |-> {"decode"}]
    ELSE [an |-> {x.body}, err |-> Nil]

\* Client.GetInsights on the round trip x: (*InsightsResponse, error)
GetInsights(x) ==
    IF ~x.transport THEN [an |-> Nil, err |-> {"transport"}]
    ELSE IF x.status # StatusOK
         THEN IF ~x.decodes THEN [an |-> Nil, err |-> {"decode"}]
              ELSE [an |-> Nil, err |-> {x.body.Error}]
    ELSE IF ~x.decodes THEN [an |-> Nil, err |-> {"decode"}]
    ELSE IF x.body.Error # "" THEN [an |-> Nil, err |-> {x.body.Error}]
    ELSE [an |-> {x.body}, err |-> Nil]

\* Client.AnalyseLog on the round trip x of POST /1/analyse:
\* (*InsightsResponse, error)
AnalyseLog(x) ==
    IF ~x.transport THEN [an |-> Nil, err |-> {"transport"}]
    ELSE IF x.status # StatusOK
         THEN IF x.decodes THEN [an |-> Nil, err |-> {x.body.Error}]
              ELSE [an |-> Nil, err |-> {"decode"}]
    ELSE IF ~x.decodes THEN [an |-> Nil, err |-> {"decode"}]
    ELSE IF x.body.Error = "" THEN [an |-> {x.body}, err |-> Nil]
    ELSE [an |-> Nil, err |-> {x.body.Error}]

----------------------------------------------------------------------------
(* handleMessageCreate: what all builds share *)

\* a mutant of CountRejected: the upper cap is missing
CountRejectedNoCap(n) == n < 1

\* len(m.Attachments) < 1 || len(m.Attachments) > 5
CountRejected(n) == n < 1 \/ n > MaxAttachments

\* !strings.HasPrefix(a.ContentType, "text/plain") is false
Eligible(a) == HasPrefix(a.ContentType, TextPlain)

\* a mutant of TooLarge: the ceiling is 11 MiB
TooLargeLax(n) == n > MiB11

\* a mutant of TooLarge: a ceiling of 100 MiB
TooLargeHundred(n) == n > 100 * 1024 * 1024

\* a mutant of TooLarge: the comparison is >= where the code has >
TooLargeInclusive(n) == n >= SizeCeiling

\* len(body) > 10*1024*1024
TooLarge(n) == n > SizeCeiling

\* a mutant of NeedTyping: the test is inverted, the signal is never sent
NeedTypingInverted(started) == started

\* if !typingStarted
NeedTyping(started) == ~started

\* the pipeline of one attachment before anything was done for it
NewAtt ==
    [pc |-> "new", gets |-> 0, got |-> FALSE, reads |-> 0, body |-> -1,
     pastes |-> 0, pr |-> Nil, insights |-> 0, an |-> Nil, seen |-> <<>>,
     asked |-> Nil]

\* &discordgo.MessageEmbedField{Name: an.Title, Value: pr.URL, Inline: true}
Field(an, pr) == [Name |-> Deref(an).Title, Value |-> Deref(pr).URL]

\* the embed of the sequential builds: the paste URL is in the Description
EmbedOne(pr, ic) == [Description |-> {Deref(pr).URL}, Fields |-> <<>>, IconURL |-> ic]

\* the embed of the concurrent build: Fields: fs
EmbedAll(f, ic) == [Description |-> {}, Fields |-> f, IconURL |-> ic]

\* no client call is exercised on its own
NoCall == [op |-> "none"]

Init ==
    /\ call = NoCall
    /\ variant \in Variants
    /\ alive = TRUE
    /\ msg = [h \in Handlers |-> <<>>]
    /\ hpc = [h \in Handlers |-> "idle"]
    /\ ppc = [h \in Handlers |-> "none"]
    /\ idx = [h \in Handlers |-> 0]
    /\ typingStarted = [h \in Handlers |-> FALSE]
    /\ att = [h \in Handlers |-> <<>>]
    /\ fs = [h \in Handlers |-> <<>>]
    /\ mu = [h \in Handlers |-> 0]
    /\ wg = [h \in Handlers |-> 0]
    /\ icon = [h \in Handlers |-> FALSE]
    /\ typing = [h \in Handlers |-> 0]
    /\ sent = [h \in Handlers |-> <<>>]

\* discordgo calls the handler with the event m; the handler runs up to its
\* first blocking call: the count check, and in the concurrent build the
\* start of the producer goroutine and the entry of the range over ch
Receive(h, m) ==
    /\ alive
    /\ hpc[h] \in {"idle", "returned"}
    /\ msg' = [msg EXCEPT ![h] = m]
    /\ att' = [att EXCEPT ![h] = [i \in 1..Len(m) |-> NewAtt]]
    /\ typingStarted' = [typingStarted EXCEPT ![h] = FALSE]
    /\ fs' = [fs EXCEPT ![h] = <<>>]
    /\ mu' = [mu EXCEPT ![h] = 0]
    /\ wg' = [wg EXCEPT ![h] = 0]
    /\ icon' = [icon EXCEPT ![h] = FALSE]
    /\ typing' = [typing EXCEPT ![h] = 0]
    /\ sent' = [sent EXCEPT ![h] = <<>>]
    /\ IF CountRejected(Len(m))
       THEN /\ hpc' = [hpc EXCEPT ![h] = "returned"]
            /\ ppc' = [ppc EXCEPT ![h] = "none"]
            /\ idx' = [idx EXCEPT ![h] = 0]
       ELSE /\ hpc' = [hpc EXCEPT ![h] = IF variant = "part_000" THEN "range" ELSE "loop"]
            /\ ppc' = [ppc EXCEPT ![h] = IF variant = "part_000" THEN "loop" ELSE "none"]
            /\ idx' = [idx EXCEPT ![h] = 1]
    /\ UNCHANGED <<call, variant, alive>>

----------------------------------------------------------------------------
(* The sequential builds: src/main.go:27-86 and src/why.md:309-370.  The   *)
(* handler goroutine runs the loop body of attachment idx[h] itself.       *)

Sequential == variant \in {"main_go", "why_md"}

SeqAt(h, pc) == alive /\ Sequential /\ hpc[h] = pc

\* a mutant of Continue: return where the code has continue
ContinueReturns(h, rec) ==
    /\ att' = [att EXCEPT ![h][idx[h]] = [rec EXCEPT !.pc = "done"]]
    /\ idx' = idx
    /\ hpc' = [hpc EXCEPT ![h] = "returned"]

\* continue, or the end of the loop body: the next attachment
Continue(h, rec) ==
    /\ att' = [att EXCEPT ![h][idx[h]] = [rec EXCEPT !.pc = "done"]]
    /\ idx' = [idx EXCEPT ![h] = idx[h] + 1]
    /\ hpc' = [hpc EXCEPT ![h] = "loop"]

\* the range is exhausted: the handler returns
SeqReturn(h) ==
    /\ SeqAt(h, "loop")
    /\ idx[h] > Len(msg[h])
    /\ hpc' = [hpc EXCEPT ![h] = "returned"]
    /\ UNCHANGED <<call, variant, alive, msg, ppc, idx, typingStarted, att, fs, mu, wg,
                   icon, typing, sent>>

\* the content type lacks the prefix: continue
SeqSkip(h) ==
    /\ SeqAt(h, "loop")
    /\ idx[h] <= Len(msg[h])
    /\ ~Eligible(msg[h][idx[h]])
    /\ Continue(h, att[h][idx[h]])
    /\ UNCHANGED <<call, variant, alive, msg, ppc, typingStarted, fs, mu, wg, icon, typing, sent>>

\* s.ChannelTyping before the first eligible attachment; its error is logged
SeqTyping(h) ==
    /\ SeqAt(h, "loop")
    /\ idx[h] <= Len(msg[h])
    /\ Eligible(msg[h][idx[h]])
    /\ NeedTyping(typingStarted[h])
    /\ typing' = [typing EXCEPT ![h] = typing[h] + 1]
    /\ typingStarted' = [typingStarted EXCEPT ![h] = TRUE]
    /\ UNCHANGED <<call, variant, alive, msg, hpc, ppc, idx, att, fs, mu, wg, icon, sent>>

\* resp, err := http.Get(a.URL)
SeqGet(h, ok) ==
    /\ SeqAt(h, "loop")
    /\ idx[h] <= Len(msg[h])
    /\ Eligible(msg[h][idx[h]])
    /\ ~NeedTyping(typingStarted[h])
    /\ LET a == att[h][idx[h]]
           called == [a EXCEPT !.gets = a.gets + 1, !.got = ok]
       IN IF ok
          THEN /\ att' = [att EXCEPT ![h][idx[h]] = called]
               /\ hpc' = [hpc EXCEPT ![h] = "read"]
               /\ idx' = idx
          ELSE Continue(h, called)
    /\ UNCHANGED <<call, variant, alive, msg, ppc, typingStarted, fs, mu, wg, icon, typing, sent>>

\* body, err := io.ReadAll(resp.Body), then the size check
SeqRead(h, r) ==
    /\ SeqAt(h, "read")
    /\ LET a == att[h][idx[h]]
           called == [a EXCEPT !.reads = a.reads + 1, !.body = r.n]
       IN IF r.ok /\ ~TooLarge(r.n)
          THEN /\ att' = [att EXCEPT ![h][idx[h]] = called]
               /\ hpc' = [hpc EXCEPT ![h] = "paste"]
               /\ idx' = idx
          ELSE Continue(h, called)
    /\ UNCHANGED <<call, variant, alive, msg, ppc, typingStarted, fs, mu, wg, icon, typing, sent>>

\* pr, err := mclc.PasteLog(string(body)); on an error main.go calls
\* log.Fatalf, which exits the process, and why.md returns from the handler
SeqPaste(h, x) ==
    /\ SeqAt(h, "paste")
    /\ LET a == att[h][idx[h]]
           r == PasteLog(x)
       IN /\ att' = [att EXCEPT ![h][idx[h]] = [a EXCEPT !.pastes = a.pastes + 1, !.pr = r.pr]]
          /\ IF r.err = Nil
             THEN /\ hpc' = [hpc EXCEPT ![h] = "user"]
                  /\ alive' = alive
             ELSE IF variant = "main_go"
                  THEN /\ alive' = FALSE
                       /\ hpc' = hpc
                  ELSE /\ hpc' = [hpc EXCEPT ![h] = "returned"]
                       /\ alive' = alive
    /\ UNCHANGED <<call, variant, msg, ppc, idx, typingStarted, fs, mu, wg, icon, typing, sent>>

\* botUser, err := s.User("@me"): the icon is set unless the call fails
SeqUser(h, ok) ==
    /\ SeqAt(h, "user")
    /\ icon' = [icon EXCEPT ![h] = ok]
    /\ hpc' = [hpc EXCEPT ![h] = "send"]
    /\ UNCHANGED <<call, variant, alive, msg, ppc, idx, typingStarted, att, fs, mu, wg, typing, sent>>

\* s.ChannelMessageSendEmbed(m.ChannelID, re); a failure is logged
SeqSend(h, ok) ==
    /\ SeqAt(h, "send")
    /\ sent' = [sent EXCEPT ![h] =
                   Append(sent[h], [re |-> EmbedOne(att[h][idx[h]].pr, icon[h]),
                                    delivered |-> ok])]
    /\ Continue(h, att[h][idx[h]])
    /\ UNCHANGED <<call, variant, alive, msg, ppc, typingStarted, fs, mu, wg, icon, typing>>

----------------------------------------------------------------------------
(* The concurrent build: src/unnamed/part_000:136-240 *)

ConcAt(h) == alive /\ variant = "part_000"

\* the producer goroutine: the content type lacks the prefix, next attachment
ProducerSkip(h) ==
    /\ ConcAt(h) /\ ppc[h] = "loop"
    /\ idx[h] <= Len(msg[h])
    /\ ~Eligible(msg[h][idx[h]])
    /\ idx' = [idx EXCEPT ![h] = idx[h] + 1]
    /\ UNCHANGED <<call, variant, alive, msg, hpc, ppc, typingStarted, att, fs, mu, wg,
                   icon, typing, sent>>

\* the producer goroutine: s.ChannelTyping before the first eligible attachment
ProducerTyping(h) ==
    /\ ConcAt(h) /\ ppc[h] = "loop"
    /\ idx[h] <= Len(msg[h])
    /\ Eligible(msg[h][idx[h]])
    /\ NeedTyping(typingStarted[h])
    /\ typing' = [typing EXCEPT ![h] = typing[h] + 1]
    /\ typingStarted' = [typingStarted EXCEPT ![h] = TRUE]
    /\ UNCHANGED <<call, variant, alive, msg, hpc, ppc, idx, att, fs, mu, wg, icon, sent>>

\* ch <- at meets for at := range ch (ch is unbuffered); the handler then
\* does wg.Add(1) and starts the goroutine of the attachment
Dispatch(h) ==
    /\ ConcAt(h) /\ ppc[h] = "loop" /\ hpc[h] = "range"
    /\ idx[h] <= Len(msg[h])
    /\ Eligible(msg[h][idx[h]])
    /\ ~NeedTyping(typingStarted[h])
    /\ wg' = [wg EXCEPT ![h] = wg[h] + 1]
    /\ att' = [att EXCEPT ![h][idx[h]].pc = "get"]
    /\ idx' = [idx EXCEPT ![h] = idx[h] + 1]
    /\ UNCHANGED <<call, variant, alive, msg, hpc, ppc, typingStarted, fs, mu, icon, typing, sent>>

\* close(ch) after the last attachment
ProducerClose(h) ==
    /\ ConcAt(h) /\ ppc[h] = "loop"
    /\ idx[h] > Len(msg[h])
    /\ ppc' = [ppc EXCEPT ![h] = "closed"]
    /\ UNCHANGED <<call, variant, alive, msg, hpc, idx, typingStarted, att, fs, mu, wg,
                   icon, typing, sent>>

\* the range over ch ends on the closed channel: the handler reaches wg.Wait()
RangeEnd(h) ==
    /\ ConcAt(h) /\ hpc[h] = "range" /\ ppc[h] = "closed"
    /\ hpc' = [hpc EXCEPT ![h] = "wait"]
    /\ UNCHANGED <<call, variant, alive, msg, ppc, idx, typingStarted, att, fs, mu, wg,
                   icon, typing, sent>>

TaskAt(h, i, pc) == ConcAt(h) /\ i \in DOMAIN att[h] /\ att[h][i].pc = pc

\* return from the goroutine: the deferred wg.Done() runs
TaskReturn(h, i, rec) ==
    /\ att' = [att EXCEPT ![h][i] = [rec EXCEPT !.pc = "done"]]
    /\ wg' = [wg EXCEPT ![h] = wg[h] - 1]

\* resp, err := http.Get(at.URL)
TaskGet(h, i, ok) ==
    /\ TaskAt(h, i, "get")
    /\ LET a == att[h][i]
           called == [a EXCEPT !.gets = a.gets + 1, !.got = ok]
       IN IF ok
          THEN /\ att' = [att EXCEPT ![h][i] = [called EXCEPT !.pc = "read"]]
               /\ wg' = wg
          ELSE TaskReturn(h, i, called)
    /\ UNCHANGED <<call, variant, alive, msg, hpc, ppc, idx, typingStarted, fs, mu,
                   icon, typing, sent>>

\* body, err := io.ReadAll(resp.Body), then the size check
TaskRead(h, i, r) ==
    /\ TaskAt(h, i, "read")
    /\ LET a == att[h][i]
           called == [a EXCEPT !.reads = a.reads + 1, !.body = r.n]
       IN IF r.ok /\ ~TooLarge(r.n)
          THEN /\ att' = [att EXCEPT ![h][i] = [called EXCEPT !.pc = "paste"]]
               /\ wg' = wg
          ELSE TaskReturn(h, i, called)
    /\ UNCHANGED <<call, variant, alive, msg, hpc, ppc, idx, typingStarted, fs, mu,
                   icon, typing, sent>>

\* pr, err := mclc.PasteLog(string(body)); on an error the goroutine returns
TaskPaste(h, i, x) ==
    /\ TaskAt(h, i, "paste")
    /\ LET a == att[h][i]
           r == PasteLog(x)
           called == [a EXCEPT !.pastes = a.pastes + 1, !.pr = r.pr]
       IN IF r.err = Nil
          THEN /\ att' = [att EXCEPT ![h][i] = [called EXCEPT !.pc = "insights"]]
               /\ wg' = wg
          ELSE TaskReturn(h, i, called)
    /\ UNCHANGED <<call, variant, alive, msg, hpc, ppc, idx, typingStarted, fs, mu,
                   icon, typing, sent>>

\* an, err := mclc.GetInsights(pr.ID); the error is logged and the goroutine
\* goes on with the an it got.  asked is the id the request was made for; the
\* round trip x is one for that id.
TaskInsights(h, i, x) ==
    /\ TaskAt(h, i, "insights")
    /\ x.body.ID = Deref(att[h][i].pr).ID
    /\ LET a == att[h][i]
           r == GetInsights(x)
       IN att' = [att EXCEPT ![h][i] =
                     [a EXCEPT !.insights = a.insights + 1, !.an = r.an,
                               !.asked = {Deref(a.pr).ID}, !.pc = "lock"]]
    /\ UNCHANGED <<call, variant, alive, msg, hpc, ppc, idx, typingStarted, fs, mu, wg,
                   icon, typing, sent>>

\* a mutant of LockFree: mu.Lock() is missing
LockFreeAlways(m) == TRUE

\* mu.Lock() returns only when no goroutine holds mu
LockFree(m) == m = 0

\* mu.Lock(), and the read of fs that append starts with: seen is the slice
\* the goroutine appends to
TaskLock(h, i) ==
    /\ TaskAt(h, i, "lock")
    /\ LockFree(mu[h])
    /\ mu' = [mu EXCEPT ![h] = i]
    /\ att' = [att EXCEPT ![h][i].pc = "append", ![h][i].seen = fs[h]]
    /\ UNCHANGED <<call, variant, alive, msg, hpc, ppc, idx, typingStarted, fs, wg,
                   icon, typing, sent>>

\* a mutant of TaskAppend: fs is overwritten with the one new field, so the
\* task that appends last decides the list
TaskAppendOverwrites(h, i) ==
    /\ TaskAt(h, i, "append")
    /\ LET a == att[h][i]
       IN IF a.an = Nil
          THEN /\ att' = [att EXCEPT ![h][i].pc = "panic", ![h][i].seen = <<>>]
               /\ wg' = [wg EXCEPT ![h] = wg[h] - 1]
               /\ UNCHANGED <<fs, mu>>
          ELSE /\ fs' = [fs EXCEPT ![h] = <<Field(a.an, a.pr)>>]
               /\ mu' = [mu EXCEPT ![h] = 0]
               /\ TaskReturn(h, i, [a EXCEPT !.seen = <<>>])
    /\ UNCHANGED <<call, variant, alive, msg, hpc, ppc, idx, typingStarted, icon, typing, sent>>

\* fs = append(fs, &discordgo.MessageEmbedField{Name: an.Title, ...});
\* mu.Unlock(); return.  With an == nil, an.Title is a nil pointer
\* dereference: the goroutine panics with mu held, its deferred wg.Done()
\* runs, and the runtime is about to end the process.
TaskAppend(h, i) ==
    /\ TaskAt(h, i, "append")
    /\ LET a == att[h][i]
       IN IF a.an = Nil
          THEN /\ att' = [att EXCEPT ![h][i].pc = "panic", ![h][i].seen = <<>>]
               /\ wg' = [wg EXCEPT ![h] = wg[h] - 1]
               /\ UNCHANGED <<fs, mu>>
          ELSE /\ fs' = [fs EXCEPT ![h] = Append(a.seen, Field(a.an, a.pr))]
               /\ mu' = [mu EXCEPT ![h] = 0]
               /\ TaskReturn(h, i, [a EXCEPT !.seen = <<>>])
    /\ UNCHANGED <<call, variant, alive, msg, hpc, ppc, idx, typingStarted, icon, typing, sent>>

\* the panic of a goroutine is not recovered: the runtime exits the process
Crash(h, i) ==
    /\ TaskAt(h, i, "panic")
    /\ alive' = FALSE
    /\ UNCHANGED <<call, variant, msg, hpc, ppc, idx, typingStarted, att, fs, mu, wg,
                   icon, typing, sent>>

\* a mutant of NoPastes: the check is missing
NoPastesNever(f) == FALSE

\* len(fs) == 0
NoPastes(f) == Len(f) = 0

\* a mutant of WaitReleased: wg.Wait() is missing
WaitReleasedAtOnce(n) == TRUE

\* wg.Wait() blocks until the counter of the WaitGroup is zero
WaitReleased(n) == n = 0

\* wg.Wait() returns; if len(fs) == 0 the handler returns
Wait(h) ==
    /\ ConcAt(h) /\ hpc[h] = "wait"
    /\ WaitReleased(wg[h])
    /\ hpc' = [hpc EXCEPT ![h] = IF NoPastes(fs[h]) THEN "returned" ELSE "user"]
    /\ UNCHANGED <<call, variant, alive, msg, ppc, idx, typingStarted, att, fs, mu, wg,
                   icon, typing, sent>>

\* botUser, err := s.User("@me"): the icon is set unless the call fails
User(h, ok) ==
    /\ ConcAt(h) /\ hpc[h] = "user"
    /\ icon' = [icon EXCEPT ![h] = ok]
    /\ hpc' = [hpc EXCEPT ![h] = "send"]
    /\ UNCHANGED <<call, variant, alive, msg, ppc, idx, typingStarted, att, fs, mu, wg,
                   typing, sent>>

\* a mutant of Send: the embed is sent again until Discord accepts it
SendRetries(h, ok) ==
    /\ ConcAt(h) /\ hpc[h] = "send"
    /\ sent' = [sent EXCEPT ![h] =
                   Append(sent[h], [re |-> EmbedAll(fs[h], icon[h]), delivered |-> ok])]
    /\ hpc' = [hpc EXCEPT ![h] = IF ok THEN "returned" ELSE "send"]
    /\ UNCHANGED <<call, variant, alive, msg, ppc, idx, typingStarted, att, fs, mu, wg,
                   icon, typing>>

\* s.ChannelMessageSendEmbed(m.ChannelID, re); a failure is logged
Send(h, ok) ==
    /\ ConcAt(h) /\ hpc[h] = "send"
    /\ sent' = [sent EXCEPT ![h] =
                   Append(sent[h], [re |-> EmbedAll(fs[h], icon[h]), delivered |-> ok])]
    /\ hpc' = [hpc EXCEPT ![h] = "returned"]
    /\ UNCHANGED <<call, variant, alive, msg, ppc, idx, typingStarted, att, fs, mu, wg,
                   icon, typing>>

----------------------------------------------------------------------------
(* One handler at a time: the messages of a channel handled one after the  *)
(* other by handler 1.                                                     *)

\* the steps of the handler call h and of its goroutines after the event
\* came in
Work(h) ==
    \/ SeqReturn(h)
    \/ SeqSkip(h)
    \/ SeqTyping(h)
    \/ \E ok \in BOOLEAN : SeqGet(h, ok)
    \/ \E r \in Reads : SeqRead(h, r)
    \/ \E x \in PasteExchanges(PasteID(h, idx[h])) : SeqPaste(h, x)
    \/ \E ok \in BOOLEAN : SeqUser(h, ok)
    \/ \E ok \in BOOLEAN : SeqSend(h, ok)
    \/ ProducerSkip(h)
    \/ ProducerTyping(h)
    \/ Dispatch(h)
    \/ ProducerClose(h)
    \/ RangeEnd(h)
    \/ \E i \in DOMAIN att[h], ok \in BOOLEAN : TaskGet(h, i, ok)
    \/ \E i \in DOMAIN att[h], r \in Reads : TaskRead(h, i, r)
    \/ \E i \in DOMAIN att[h] : \E x \in PasteExchanges(PasteID(h, i)) : TaskPaste(h, i, x)
    \/ \E i \in DOMAIN att[h] : \E x \in InsightsExchanges(PasteID(h, i)) : TaskInsights(h, i, x)
    \/ \E i \in DOMAIN att[h] : TaskLock(h, i)
    \/ \E i \in DOMAIN att[h] : TaskAppend(h, i)
    \/ \E i \in DOMAIN att[h] : Crash(h, i)
    \/ Wait(h)
    \/ \E ok \in BOOLEAN : User(h, ok)
    \/ \E ok \in BOOLEAN : Send(h, ok)

HandlerStep(h) ==
    \/ \E m \in Messages : Receive(h, m)
    \/ Work(h)

Next == HandlerStep(1)

Spec == Init /\ [][Next]_vars

\* Two messages at a time: discordgo runs every call of the handler in a
\* goroutine of its own, so the calls for two messages interleave.  Each
\* message has one attachment.
PairMessages == {<<LogTxt>>, <<PageHtml>>}

PairStep(h) ==
    \/ \E m \in PairMessages : Receive(h, m)
    \/ Work(h)

NextPair == \E h \in Handlers : PairStep(h)

SpecPair == Init /\ [][NextPair]_vars

----------------------------------------------------------------------------
(* The mclo.gs client on its own: one call of PasteLog, or of GetInsights  *)
(* and AnalyseLog on the same response, for every response of the service. *)

hvars == <<variant, alive, msg, hpc, ppc, idx, typingStarted, att, fs, mu, wg,
           icon, typing, sent>>

\* the error strings of the service; "" is an absent or empty error field
ServiceErrors == {"", "Log not found.", "Required POST argument 'content' is empty."}

ClientIDs == {"abc", "xyz"}

\* the HTTP statuses of the responses
ClientStatuses == {StatusOK, 204, 500} \cup ErrorStatuses

\* every round trip of POST /1/log: whether a response came, whether its
\* body decodes into a PasteResponse, and the PasteResponse
ClientPasteExchanges ==
    {[transport |-> t, decodes |-> d,
      body |-> [Success |-> ok, ID |-> id, URL |-> PasteURL(id), Error |-> e]] :
        t \in BOOLEAN, d \in BOOLEAN, ok \in BOOLEAN, id \in ClientIDs,
        e \in ServiceErrors}

\* every round trip of GET /1/insights/{id} and POST /1/analyse
ClientInsightsExchanges ==
    {[transport |-> t, status |-> st, decodes |-> d,
      body |-> [ID |-> "abc", Title |-> InsightsTitle, Error |-> e]] :
        t \in BOOLEAN, st \in ClientStatuses, d \in BOOLEAN, e \in ServiceErrors}

InitClient ==
    /\ call \in {[op |-> "PasteLog", x |-> x, done |-> FALSE] :
                    x \in ClientPasteExchanges}
               \cup {[op |-> "Insights", x |-> x, done |-> FALSE] :
                    x \in ClientInsightsExchanges}
    /\ variant = "why_md"
    /\ alive = TRUE
    /\ msg = [h \in Handlers |-> <<>>]
    /\ hpc = [h \in Handlers |-> "idle"]
    /\ ppc = [h \in Handlers |-> "none"]
    /\ idx = [h \in Handlers |-> 0]
    /\ typingStarted = [h \in Handlers |-> FALSE]
    /\ att = [h \in Handlers |-> <<>>]
    /\ fs = [h \in Handlers |-> <<>>]
    /\ mu = [h \in Handlers |-> 0]
    /\ wg = [h \in Handlers |-> 0]
    /\ icon = [h \in Handlers |-> FALSE]
    /\ typing = [h \in Handlers |-> 0]
    /\ sent = [h \in Handlers |-> <<>>]

\* pr, err := c.PasteLog(content)
CallPasteLog ==
    /\ call.op = "PasteLog" /\ ~call.done
    /\ call' = [op |-> "PasteLog", x |-> call.x, done |-> TRUE, r |-> PasteLog(call.x)]
    /\ UNCHANGED hvars

\* c.GetInsights(id) and c.AnalyseLog(content), each given the response x
CallInsights ==
    /\ call.op = "Insights" /\ ~call.done
    /\ call' = [op |-> "Insights", x |-> call.x, done |-> TRUE,
                r |-> [get |-> GetInsights(call.x), analyse |-> AnalyseLog(call.x)]]
    /\ UNCHANGED hvars

NextClient == CallPasteLog \/ CallInsights

SpecClient == InitClient /\ [][NextClient]_vars

----------------------------------------------------------------------------
(* What the properties below speak of *)

\* the content type starts with text/plain, character by character
PlainPrefixed(s) ==
    /\ Len(s) >= Len(TextPlain)
    /\ \A k \in 1..Len(TextPlain) : s[k] = TextPlain[k]

\* the attachments of the message of h whose declared content type is plain text
Elig(h) == {i \in DOMAIN msg[h] : PlainPrefixed(msg[h][i].ContentType)}

\* handleMessageCreate has returned, or the process has exited
Finished(h) == hpc[h] = "returned" \/ ~alive

\* the URL the paste of attachment i gets
URLOf(h, i) == PasteURL(PasteID(h, i))

\* the paste URLs an embed carries, in its fields or in its description
EmbedURLs(re) == re.Description \cup {re.Fields[k].Value : k \in DOMAIN re.Fields}

\* the paste URLs of all replies handed to Discord for the message of h
ReplyURLs(h) == UNION {EmbedURLs(sent[h][k].re) : k \in DOMAIN sent[h]}

\* the paste URLs of the fields collected in fs
FieldURLs(h) == {fs[h][k].Value : k \in DOMAIN fs[h]}

PasteFailed(h, i) == att[h][i].pastes > 0 /\ att[h][i].pr = Nil

PasteOK(h, i) == att[h][i].pastes > 0 /\ att[h][i].pr # Nil

InsightsFailed(h, i) == att[h][i].insights > 0 /\ att[h][i].an = Nil

\* nothing was done on the network for attachment i
Untouched(h, i) ==
    /\ att[h][i].gets = 0
    /\ att[h][i].reads = 0
    /\ att[h][i].pastes = 0
    /\ att[h][i].insights = 0

\* no paste, no insights request, no field and no reply for attachment i
NotSubmitted(h, i) ==
    /\ att[h][i].pastes = 0
    /\ att[h][i].insights = 0
    /\ att[h][i].pr = Nil
    /\ URLOf(h, i) \notin FieldURLs(h)
    /\ URLOf(h, i) \notin ReplyURLs(h)

----------------------------------------------------------------------------
(* C1..C10 *)

\* C1: when the handler is finished and the submission of one eligible
\* attachment failed, every other eligible attachment was processed (its
\* download was attempted), and each one the paste service accepted has its
\* paste URL in a reply.
C1_SubmissionFailureIsolated ==
    \A h \in Handlers :
        Finished(h) =>
            \A i \in Elig(h) :
                PasteFailed(h, i) =>
                    \A j \in Elig(h) \ {i} :
                        /\ att[h][j].gets = 1
                        /\ PasteOK(h, j) => URLOf(h, j) \in ReplyURLs(h)

\* C2: an attachment whose insights request failed after a successful
\* submission never panics its task, and once its task is over its paste URL
\* is the value of a reply field.
C2_InsightsFailureKeepsField ==
    \A h \in Handlers :
        \A i \in DOMAIN att[h] :
            InsightsFailed(h, i) =>
                /\ att[h][i].pc # "panic"
                /\ att[h][i].pc = "done" => URLOf(h, i) \in FieldURLs(h)

\* C3: whatever messages came in and whatever failed for their attachments,
\* the bot process is running.
C3_ProcessSurvives == alive

C5_DeclaredOrServedType ==
    \A h \in Handlers :
        \A i \in DOMAIN att[h] :
            (\/ ~PlainPrefixed(msg[h][i].ContentType)
             \/ att[h][i].got /\ ~PlainPrefixed(Served(msg[h][i].URL)))
            => NotSubmitted(h, i)

\* C5 as amended: an attachment whose declared content type lacks the
\* text/plain prefix is never downloaded, never submitted and gets no reply
\* field, whatever the other attachments of the message are.
C5_DeclaredTypeFilter ==
    \A h \in Handlers :
        \A i \in DOMAIN att[h] :
            ~PlainPrefixed(msg[h][i].ContentType) => Untouched(h, i) /\ NotSubmitted(h, i)

\* C5 witness: the handler has returned from a message that holds a text/html
\* attachment beside a plain-text one whose paste was replied.
C5_Witness ==
    /\ hpc[1] = "returned"
    /\ \E i \in DOMAIN msg[1] : \E j \in DOMAIN msg[1] :
        /\ ~PlainPrefixed(msg[1][i].ContentType)
        /\ PlainPrefixed(msg[1][j].ContentType)
        /\ URLOf(1, j) \in ReplyURLs(1)

\* an oversized body was just read for attachment i of handler h
ReadOversized(h, i) ==
    /\ i \in DOMAIN att[h]
    /\ att[h][i].reads = 0
    /\ i \in DOMAIN att'[h]
    /\ att'[h][i].reads = 1
    /\ att'[h][i].body > 10 * 1024 * 1024

\* C6: an attachment whose downloaded body is larger than 10 MiB is never
\* submitted, has no insights request, no reply field and no reply; and the
\* step that finds the body oversized leaves the process running, the handler
\* in its loop, the collected fields, the replies and every sibling attachment
\* as they were.
C6_OversizedNotSubmitted ==
    /\ [](\A h \in Handlers : \A i \in DOMAIN att[h] :
            att[h][i].body > 10 * 1024 * 1024 => NotSubmitted(h, i))
    /\ [][\A h \in Handlers : \A i \in DOMAIN msg[h] :
            ReadOversized(h, i) =>
                /\ alive'
                /\ hpc'[h] # "returned"
                /\ fs'[h] = fs[h]
                /\ sent'[h] = sent[h]
                /\ \A j \in DOMAIN att[h] \ {i} : att'[h][j] = att[h][j]]_vars

\* C6 witness: the handler has returned, one attachment was read oversized
\* and a sibling's paste was replied.
C6_Witness ==
    /\ hpc[1] = "returned"
    /\ \E i \in DOMAIN att[1] : \E j \in DOMAIN att[1] :
        /\ att[1][i].body > 10 * 1024 * 1024
        /\ att[1][i].pc = "done"
        /\ i # j
        /\ URLOf(1, j) \in ReplyURLs(1)

\* C7 as claimed: a text/plain attachment whose declared size is 11 MiB is
\* never submitted and gets no reply field.
C7_DeclaredSizeOverCeiling ==
    \A h \in Handlers :
        \A i \in DOMAIN att[h] :
            PlainPrefixed(msg[h][i].ContentType) /\ msg[h][i].Size = 11 * 1024 * 1024
                => NotSubmitted(h, i)

\* C7 as amended: a text/plain attachment whose downloaded body is 11 MiB
\* long, whatever its declared size, is never submitted and gets no reply
\* field.
C7_DownloadedSizeOverCeiling ==
    \A h \in Handlers :
        \A i \in DOMAIN att[h] :
            PlainPrefixed(msg[h][i].ContentType) /\ att[h][i].body = 11 * 1024 * 1024
                => NotSubmitted(h, i)

\* C7 witness: the handler has returned from a message whose text/plain
\* attachment, declared 11 bytes long, had a body of 11 MiB.
C7_Witness ==
    /\ hpc[1] = "returned"
    /\ \E i \in DOMAIN att[1] :
        /\ PlainPrefixed(msg[1][i].ContentType)
        /\ msg[1][i].Size = 11
        /\ att[1][i].body = 11 * 1024 * 1024

\* C8: in the concurrent build, when the handler is finished and every
\* eligible attachment downloaded, stayed within the ceiling and was accepted
\* by the paste service, one reply was sent and its fields carry exactly the
\* paste URLs of the eligible attachments, one field each.
C8_AllSubmissionsAllFields ==
    \A h \in Handlers :
        (/\ variant = "part_000"
         /\ Finished(h)
         /\ Elig(h) # {}
         /\ \A i \in Elig(h) :
             /\ att[h][i].got
             /\ att[h][i].body \in 0..(10 * 1024 * 1024)
             /\ PasteOK(h, i))
        => (/\ Len(sent[h]) = 1
            /\ Len(sent[h][1].re.Fields) = Cardinality(Elig(h))
            /\ EmbedURLs(sent[h][1].re) = {URLOf(h, i) : i \in Elig(h)})

\* C9: a reply is handed to Discord only if the submission of at least one
\* attachment succeeded: with no successful submission nothing is sent, and
\* every reply carries at least one paste URL, each of a successful
\* submission.
C9_ReplyOnlyAfterPaste ==
    \A h \in Handlers :
        /\ (\A i \in DOMAIN att[h] : ~PasteOK(h, i)) => sent[h] = <<>>
        /\ \A k \in DOMAIN sent[h] :
            /\ EmbedURLs(sent[h][k].re) # {}
            /\ \A u \in EmbedURLs(sent[h][k].re) :
                \E i \in Elig(h) : PasteOK(h, i) /\ u = URLOf(h, i)

\* C9 witness: the handler has returned without a reply from a message with
\* two eligible attachments, one whose download failed and one whose
\* submission failed.
C9_Witness ==
    /\ hpc[1] = "returned"
    /\ sent[1] = <<>>
    /\ \E i \in Elig(1) : \E j \in Elig(1) :
        /\ att[1][i].gets = 1 /\ ~att[1][i].got
        /\ PasteFailed(1, j)

\* C10: at most one reply is handed to Discord for a message.
C10_AtMostOneReply == \A h \in Handlers : Len(sent[h]) <= 1

----------------------------------------------------------------------------
(* C11..C20 *)

DownloadFailed(h, i) == att[h][i].gets > 0 /\ ~att[h][i].got

\* the step in which http.Get returns an error for attachment i
DownloadFails(h, i) ==
    /\ msg'[h] = msg[h]
    /\ att[h][i].gets = 0
    /\ att'[h][i].gets = 1
    /\ ~att'[h][i].got

\* C12: an attachment whose download failed is over: its body is never
\* read and nothing is submitted, asked or replied for it.  The step in
\* which the download fails leaves the process running, the handler in its
\* loop, the collected fields, the replies and every sibling's pipeline as
\* they were, and in the sequential builds moves the loop on to the next
\* attachment.  When the handler has returned, and not through a failed
\* submission, the download of every eligible attachment was requested once
\* and its pipeline has run to its end.
C12_DownloadFailureIsolated ==
    /\ [](\A h \in Handlers :
            /\ \A i \in DOMAIN att[h] :
                DownloadFailed(h, i) =>
                    /\ att[h][i].pc = "done"
                    /\ att[h][i].reads = 0
                    /\ NotSubmitted(h, i)
            /\ (/\ hpc[h] = "returned"
                /\ Len(msg[h]) >= 1 /\ Len(msg[h]) <= 5
                /\ \A i \in DOMAIN att[h] : ~PasteFailed(h, i))
               => \A j \in Elig(h) :
                    /\ att[h][j].gets = 1
                    /\ att[h][j].pc \in {"done", "panic"})
    /\ [][\A h \in Handlers :
            \A i \in DOMAIN att[h] :
                DownloadFails(h, i) =>
                    /\ alive'
                    /\ hpc'[h] # "returned"
                    /\ variant = "part_000" => hpc'[h] = hpc[h]
                    /\ variant # "part_000" => hpc'[h] = "loop" /\ idx'[h] = i + 1
                    /\ fs'[h] = fs[h]
                    /\ sent'[h] = sent[h]
                    /\ \A j \in DOMAIN att[h] \ {i} : att'[h][j] = att[h][j]]_vars

\* C12 witness: the handler has returned from a message with two eligible
\* attachments; the download of one failed, the other one was downloaded
\* and submitted, and its paste is in the reply.
C12_Witness ==
    /\ hpc[1] = "returned"
    /\ \E i \in Elig(1) : \E j \in Elig(1) \ {i} :
        /\ DownloadFailed(1, i)
        /\ att[1][j].got
        /\ PasteOK(1, j)
        /\ URLOf(1, j) \in ReplyURLs(1)

\* the handler of the concurrent build is past wg.Wait() for a message whose
\* attachment count was accepted
PastWait(h) ==
    /\ variant = "part_000"
    /\ hpc[h] \in {"user", "send", "returned"}
    /\ Len(msg[h]) >= 1 /\ Len(msg[h]) <= 5

\* C13: in the concurrent build, once the handler is past wg.Wait() every
\* eligible attachment's task was started and is over, the WaitGroup counter
\* is zero, and the fields of the embed handed to Discord are the collected
\* list; between wg.Wait() and the return of the handler no step changes the
\* list or any attachment's pipeline.
C13_AssemblerAfterAllTasks ==
    /\ [](\A h \in Handlers :
            PastWait(h) =>
                /\ wg[h] = 0
                /\ \A i \in Elig(h) : att[h][i].pc \in {"done", "panic"}
                /\ \A k \in DOMAIN sent[h] : sent[h][k].re.Fields = fs[h])
    /\ [][\A h \in Handlers :
            PastWait(h) /\ hpc[h] # "returned" =>
                fs'[h] = fs[h] /\ att'[h] = att[h]]_vars

\* C13 witness: in the concurrent build the handler is about to send the
\* embed for a message with two eligible attachments; both tasks are over
\* and both fields are in the list.
C13_Witness ==
    /\ variant = "part_000"
    /\ hpc[1] = "send"
    /\ Len(fs[1]) = 2
    /\ \E i \in Elig(1) : \E j \in Elig(1) \ {i} :
        att[1][i].pc = "done" /\ att[1][j].pc = "done"

\* the tasks of the concurrent build that executed the append and returned
Appended(h) == {i \in DOMAIN att[h] : att[h][i].pc = "done" /\ att[h][i].an # Nil}

\* C14: in the concurrent build at most one task is between mu.Lock() and
\* mu.Unlock(), that task is the holder of mu, and the collected list has
\* exactly one field for every task that executed the append: its length is
\* their number and its values are their paste URLs.
C14_AppendsExclusiveNoneLost ==
    \A h \in Handlers :
        variant = "part_000" =>
            /\ Cardinality({i \in DOMAIN att[h] : att[h][i].pc = "append"}) <= 1
            /\ \A i \in DOMAIN att[h] : att[h][i].pc = "append" => mu[h] = i
            /\ Len(fs[h]) = Cardinality(Appended(h))
            /\ FieldURLs(h) = {URLOf(h, i) : i \in Appended(h)}

\* C14 witness: one task has appended its field and returned, a second one
\* holds mu and is about to append.
C14_Witness ==
    /\ variant = "part_000"
    /\ Len(fs[1]) = 1
    /\ \E i \in Elig(1) : \E j \in Elig(1) \ {i} :
        /\ i \in Appended(1)
        /\ att[1][j].pc = "append"
        /\ att[1][j].an # Nil
        /\ mu[1] = j

\* every network call the handler call h makes for its message was made and
\* succeeded: download, read within the ceiling, submission and, in the
\* concurrent build, insights
OwnCallsSucceeded(h) ==
    /\ Len(msg[h]) >= 1 /\ Len(msg[h]) <= 5
    /\ Elig(h) # {}
    /\ \A i \in Elig(h) :
        /\ att[h][i].got
        /\ att[h][i].reads = 1
        /\ att[h][i].body >= 0 /\ att[h][i].body <= 10 * 1024 * 1024
        /\ PasteOK(h, i)
        /\ variant = "part_000" => att[h][i].insights = 1 /\ att[h][i].an # Nil

\* C15: when two messages are handled at the same time, a message whose own
\* network calls all succeeded has, once its handling is over, every one of
\* its pastes in a reply, whatever failed for the other message.
C15_MessagesIndependent ==
    \A h \in Handlers :
        Finished(h) /\ OwnCallsSucceeded(h) =>
            \A i \in Elig(h) : URLOf(h, i) \in ReplyURLs(h)

\* C16: for every attachment at most one download request, one read of the
\* body, one submission and one insights request are made; in the concurrent
\* build at most one embed is handed to Discord for a message, delivered
\* or not, and in every build no paste is handed to Discord in two embeds.
C16_NothingRetried ==
    \A h \in Handlers :
        /\ \A i \in DOMAIN att[h] :
            /\ att[h][i].gets <= 1
            /\ att[h][i].reads <= 1
            /\ att[h][i].pastes <= 1
            /\ att[h][i].insights <= 1
        /\ variant = "part_000" => Len(sent[h]) <= 1
        /\ \A k \in DOMAIN sent[h] : \A l \in DOMAIN sent[h] :
            k # l => EmbedURLs(sent[h][k].re) \cap EmbedURLs(sent[h][l].re) = {}

\* C16 witness: in the concurrent build the handler has returned after one
\* embed that Discord did not accept; the download of one attachment had
\* failed, the other one was submitted and its insights were asked for.
C16_Witness ==
    /\ variant = "part_000"
    /\ hpc[1] = "returned"
    /\ Len(sent[1]) = 1
    /\ ~sent[1][1].delivered
    /\ \E i \in Elig(1) : \E j \in Elig(1) \ {i} :
        /\ DownloadFailed(1, i)
        /\ att[1][j].pastes = 1
        /\ att[1][j].insights = 1

\* C17: PasteLog returns a paste exactly when a response came, its body
\* decoded and its success flag is true, and then the paste is the decoded
\* body; it returns an error exactly when it returns no paste; and when the
\* decoded body has success false the error is the error string of the body.
C17_PasteLogResultOrError ==
    call.op = "PasteLog" /\ call.done =>
        LET x == call.x
            r == call.r
            good == x.transport /\ x.decodes /\ x.body.Success
        IN /\ (r.pr # Nil) <=> good
           /\ (r.err # Nil) <=> ~good
           /\ good => r.pr = {x.body}
           /\ (x.transport /\ x.decodes /\ ~x.body.Success) => r.err = {x.body.Error}

\* C17 witness: PasteLog has returned for a response that decoded with
\* success false and an error string: no paste, and that string as error.
C17_Witness ==
    /\ call.op = "PasteLog" /\ call.done
    /\ call.x.transport /\ call.x.decodes /\ ~call.x.body.Success
    /\ call.x.body.Error = "Required POST argument 'content' is empty."
    /\ call.r.pr = Nil
    /\ call.r.err = {"Required POST argument 'content' is empty."}

\* C18: GetInsights and AnalyseLog each return insights exactly when a
\* response came with status 200, its body decoded and its error field is
\* empty, and then the insights are the decoded body; each returns an error
\* exactly when it returns no insights, and the error string of a decoded
\* body when that is not empty; and on the same response the two return
\* the same.
C18_InsightsAndAnalyseContract ==
    call.op = "Insights" /\ call.done =>
        LET x == call.x
            good == x.transport /\ x.status = 200 /\ x.decodes /\ x.body.Error = ""
        IN /\ \A r \in {call.r.get, call.r.analyse} :
                /\ (r.an # Nil) <=> good
                /\ (r.err # Nil) <=> ~good
                /\ good => r.an = {x.body}
                /\ (x.transport /\ x.decodes /\ x.body.Error # "") => r.err = {x.body.Error}
           /\ call.r.get = call.r.analyse

\* C18 witness: both have returned for a response with status 200 whose
\* decoded body carries an error string: no insights from either.
C18_Witness ==
    /\ call.op = "Insights" /\ call.done
    /\ call.x.transport /\ call.x.status = 200 /\ call.x.decodes
    /\ call.x.body.Error = "Log not found."
    /\ call.r.get.an = Nil
    /\ call.r.analyse.an = Nil
    /\ call.r.get.err = {"Log not found."}

\* C19: in the pipeline of an attachment the body is read only after its
\* download succeeded; a submission is made only after the body was read
\* and found within 10 MiB; insights are requested only after the
\* submission returned a paste the service accepted, and for the id of that
\* paste, which is also the id of the insights they return; and after a
\* failed submission no insights request is made.
C19_PipelineOrder ==
    \A h \in Handlers :
        \A i \in DOMAIN att[h] :
            LET a == att[h][i]
            IN /\ a.reads > 0 => a.gets = 1 /\ a.got
               /\ a.pastes > 0 =>
                    /\ a.reads = 1
                    /\ a.body >= 0 /\ a.body <= 10 * 1024 * 1024
               /\ a.insights > 0 =>
                    /\ a.pastes = 1
                    /\ a.pr # Nil
                    /\ Deref(a.pr).Success
                    /\ a.asked = {Deref(a.pr).ID}
               /\ a.an # Nil => a.insights > 0 /\ Deref(a.an).ID = Deref(a.pr).ID
               /\ a.pr = Nil => a.insights = 0 /\ a.asked = Nil
               /\ a.pc \in {"insights", "lock", "append", "panic"} => a.pr # Nil

\* C19 witness: a task of the concurrent build has gone through all five
\* steps: downloaded, read 11 bytes, submitted, and got the insights of its
\* paste.
C19_Witness ==
    /\ variant = "part_000"
    /\ \E i \in Elig(1) :
        /\ att[1][i].gets = 1 /\ att[1][i].got
        /\ att[1][i].reads = 1 /\ att[1][i].body = 11
        /\ att[1][i].pastes = 1 /\ att[1][i].pr # Nil
        /\ att[1][i].insights = 1 /\ att[1][i].an # Nil
        /\ att[1][i].asked = {PasteID(1, i)}

\* C20: in the concurrent build a call of the handler that has not returned
\* can take a step, of the handler, the producer or a task: no goroutine of
\* the call is stuck, and the process has not ended under it.  As every call
\* makes finitely many steps, this is the return of every call.
C20_HandlerReturns ==
    \A h \in Handlers :
        variant = "part_000" /\ hpc[h] \notin {"idle", "returned"} =>
            ENABLED Work(h)

----------------------------------------------------------------------------
(* C21..C22 *)

\* the body of attachment i was read and the attachment is at its
\* submission or past it
AtOrPastSubmission(h, i) ==
    \/ att[h][i].pastes = 1
    \/ variant = "part_000" /\ att[h][i].pc = "paste"
    \/ variant # "part_000" /\ hpc[h] = "paste" /\ idx[h] = i

\* C21: an attachment whose body was read with a length of at most
\* 10*1024*1024 bytes, that length included, goes on to its submission;
\* one whose body has 10*1024*1024 + 1 bytes or more is over without a
\* submission, an insights request, a field or a reply.
C21_CeilingIsStrict ==
    \A h \in Handlers :
        \A i \in DOMAIN att[h] :
            att[h][i].reads = 1 =>
                /\ (att[h][i].body >= 0 /\ att[h][i].body <= 10 * 1024 * 1024)
                       => AtOrPastSubmission(h, i)
                /\ att[h][i].body >= 10 * 1024 * 1024 + 1
                       => att[h][i].pc = "done" /\ NotSubmitted(h, i)

\* C21 witness: the handler has returned from a message with two eligible
\* attachments: the one of exactly 10*1024*1024 bytes was submitted and its
\* paste is in a reply, the one of 10*1024*1024 + 1 bytes was not submitted.
C21_Witness ==
    /\ hpc[1] = "returned"
    /\ \E i \in Elig(1) : \E j \in Elig(1) \ {i} :
        /\ att[1][i].body = 10 * 1024 * 1024
        /\ PasteOK(1, i)
        /\ URLOf(1, i) \in ReplyURLs(1)
        /\ att[1][j].body = 10 * 1024 * 1024 + 1
        /\ att[1][j].reads = 1
        /\ att[1][j].pastes = 0

\* the attachments of the message of h whose network calls all returned a
\* result: the download, the read within the ceiling, the submission and
\* the insights request
AllCallsGood(h) ==
    {i \in Elig(h) :
        /\ att[h][i].got
        /\ att[h][i].reads = 1
        /\ att[h][i].body >= 0 /\ att[h][i].body <= 10 * 1024 * 1024
        /\ att[h][i].pr # Nil
        /\ att[h][i].an # Nil}

\* the fields the outcomes of the network calls of the message call for,
\* as a set: title of the insights and URL of the paste
OutcomeFields(h) ==
    {[Name |-> Deref(att[h][i].an).Title, Value |-> Deref(att[h][i].pr).URL] :
        i \in AllCallsGood(h)}

\* C22: in the concurrent build the fields of an embed handed to Discord
\* are, as a set and without repetition, the fields the outcomes of the
\* network calls of the message call for, whatever the order in which the
\* tasks ran; and when the handler has returned with no task panicked and
\* the outcomes call for a field, one embed was handed over.
C22_FieldSetFixedByOutcomes ==
    \A h \in Handlers :
        variant = "part_000" =>
            /\ \A k \in DOMAIN sent[h] :
                LET F == sent[h][k].re.Fields
                IN /\ {F[n] : n \in DOMAIN F} = OutcomeFields(h)
                   /\ Len(F) = Cardinality(OutcomeFields(h))
            /\ (/\ hpc[h] = "returned"
                /\ Len(msg[h]) >= 1 /\ Len(msg[h]) <= 5
                /\ \A i \in DOMAIN att[h] : att[h][i].pc # "panic"
                /\ OutcomeFields(h) # {})
               => Len(sent[h]) = 1

\* C22 witness: the embed handed to Discord for a message with two eligible
\* attachments has the field of the second attachment before the field of
\* the first.
C22_Witness ==
    /\ variant = "part_000"
    /\ Len(sent[1]) = 1
    /\ Len(sent[1][1].re.Fields) = 2
    /\ sent[1][1].re.Fields[1].Value = URLOf(1, 2)
    /\ sent[1][1].re.Fields[2].Value = URLOf(1, 1)

====
